---- MODULE Spec2Model ----
(***************************************************************************)
(* Edge device telemetry: the receiver's ingest endpoint with its TTL      *)
(* dedup cache (src/edge/app.py) and the simulated device's send loop with *)
(* retry and backoff (src/device/simulated_device.py).                     *)
(*                                                                         *)
(* Five specifications share the variables below:                          *)
(*   SpecReceiver   - ingest requests handled one at a time                *)
(*   SpecConcurrent - ingest requests handled by concurrent worker threads *)
(*   SpecDevice     - the device loop talking to the receiver              *)
(*   SpecSend       - one send_with_retry call against any responses       *)
(*                    (SpecSendFair: the same with the thread running on)  *)
(*   SpecBackoff    - calculate_backoff as a function of its inputs        *)
(***************************************************************************)
EXTENDS Integers, Sequences, FiniteSets, TLC

\* ------------------------------------------------------------------ bounds
\* how often the clock advances in one behaviour
MaxTicks == 3
\* how many requests the one-at-a-time receiver handles in one behaviour
MaxRequests == 3
\* how many worker threads handle ingest requests concurrently
NThreads == 2
\* how many send cycles the device runs in one behaviour
MaxCycles == 2
\* how often the clock advances while the device runs
MaxDeviceTicks == 1
\* the largest attempt index calculate_backoff is applied to
MaxAttempt == 1024

\* ------------------------------------------------------- program constants
\* message_cache = MessageCache(ttl_seconds=300)
ttl_seconds == 300
\* MAX_RETRIES = 5
MAX_RETRIES == 5
\* DEVICE_ID = "device-001"
DEVICE_ID == "device-001"
\* BASE_BACKOFF_SECONDS = 1.0, MAX_BACKOFF_SECONDS = 30.0 and the floor 0.1 of
\* calculate_backoff; delays are counted in milliseconds
BASE_BACKOFF_MS == 1000
MAX_BACKOFF_MS == 30000
MIN_DELAY_MS == 100
\* BACKOFF_JITTER_RANGE = 0.5: random.uniform(-0.5, 0.5), in thousandths
BACKOFF_JITTER_RANGE == 500

\* ------------------------------------------------------------------- state
VARIABLES
  now,        \* time.time(), in seconds
  ticks,      \* how often the clock advanced so far
  cache,      \* message_cache.cache: key -> expiry timestamp
  last,       \* the request the receiver handled last, with its outcome
              \* (at: the clock when it arrived; prior: the expiry its key
              \* had in the cache on arrival, -1 when it had none)
  nreq,       \* number of requests handled so far
  submitted,  \* keys that had a submission the overload gate let through
  accExpiry,  \* key -> expiry written by the latest Accepted outcome for it
  tpc,        \* worker thread -> where it stands in ingest_telemetry
  treq,       \* worker thread -> the request it handles
  tstatus,    \* worker thread -> the status it answered (0: none yet)
  dpc,        \* where the device's main loop stands
  sequence_id,\* main's sequence_id
  telemetry,  \* the message of the current send cycle
  call,       \* which send_with_retry call of the cycle runs (1, or 2: resend)
  attempt,    \* send_with_retry's loop index
  ret,        \* call -> what send_with_retry returned ("none" before it did)
  ntx,        \* requests.post calls made by the current send_with_retry
  nsleep,     \* backoff sleeps started by the current send_with_retry
  allTransient, \* every attempt of the current call was a transient failure
  outcome,    \* what the latest requests.post gave: a status or an exception
  delay,      \* the backoff the device sleeps now, in milliseconds (0: none)
  decided,    \* the fault decisions main evaluated in the current cycle
  fate,       \* sequence_id of an ended cycle -> how its message ended
  interruptedAt, \* where main stood when KeyboardInterrupt was raised
  b_attempt,  \* calculate_backoff's argument
  b_sample,   \* the value random.uniform gives calculate_backoff
  b_result    \* what calculate_backoff gave (NoDelay before it ran)

cvars == <<now, ticks, cache>>
rvars == <<last, nreq, submitted, accExpiry>>
tvars == <<tpc, treq, tstatus>>
dvars == <<dpc, sequence_id, telemetry, call, attempt, ret, ntx, nsleep,
           allTransient, outcome, delay, decided, fate, interruptedAt>>
bvars == <<b_attempt, b_sample, b_result>>
vars == <<now, ticks, cache, last, nreq, submitted, accExpiry,
          tpc, treq, tstatus,
          dpc, sequence_id, telemetry, call, attempt, ret, ntx, nsleep,
          allTransient, outcome, delay, decided, fate, interruptedAt,
          b_attempt, b_sample, b_result>>

\* ---------------------------------------------------------- request inputs
Devices == {"device-001", "device-002"}
SequenceIds == {-1, 0, 1}
\* the clock advances by a second or by a whole TTL
TickSteps == {1, ttl_seconds}
\* seconds that pass inside one handler between has_seen and mark_seen
Elapsed == {0, 1}

NoRequest ==
  [device_id |-> "", sequence_id |-> 0, overload |-> FALSE, status |-> 0,
   calls |-> <<>>, at |-> 0, prior |-> -1]

NoMessage == [device_id |-> "", sequence_id |-> 0, overload |-> FALSE]

\* what requests.post gave: a response's status_code (0: no response) or the
\* exception it raised ("None": it raised nothing)
NoResponse == [status |-> 0, exception |-> "None", handled |-> FALSE]

\* what calculate_backoff gave: a delay in milliseconds, or that it raised
NoDelay == [raised |-> FALSE, value |-> 0]

EmptyCache == [k \in {} |-> 0]

\* no cycle has ended yet
NoFate == [k \in {} |-> ""]

Threads == 1..NThreads

\* ------------------------------------------------------------ MessageCache
\* key = f"{device_id}:{seq_id}"
Key(device_id, seq_id) == device_id \o ":" \o ToString(seq_id)

\* (variant: an entry is swept already at the instant of its expiry)
Expired_inclusive(expiry, t) == expiry <= t

\* an entry is swept when its expiry lies strictly before the current time
Expired(expiry, t) == expiry < t

cleanup(c, t) ==
  [k \in {x \in DOMAIN c : ~Expired(c[x], t)} |-> c[k]]

\* (variant: a hit slides the entry's expiry forward)
has_seen_refreshing(c, t, device_id, seq_id) ==
  [cache  |-> [k \in DOMAIN cleanup(c, t) |->
                 IF k = Key(device_id, seq_id)
                   THEN t + ttl_seconds ELSE c[k]],
   result |-> Key(device_id, seq_id) \in DOMAIN cleanup(c, t)]

\* (variant: the sweep is done, the answer is always "not seen")
has_seen_never(c, t, device_id, seq_id) ==
  [cache  |-> cleanup(c, t),
   result |-> FALSE]

\* has_seen sweeps, then answers membership: the cache after it and its result
has_seen(c, t, device_id, seq_id) ==
  [cache  |-> cleanup(c, t),
   result |-> Key(device_id, seq_id) \in DOMAIN cleanup(c, t)]

mark_seen(c, t, device_id, seq_id) ==
  [k \in DOMAIN c \cup {Key(device_id, seq_id)} |->
     IF k = Key(device_id, seq_id) THEN t + ttl_seconds ELSE c[k]]

\* ---------------------------------------------------------- ingest_telemetry
\* (variant: the dedup gate is consulted before the validation gate)
ingest_telemetry_dedup_first(c, t1, t2, msg, overload) ==
  IF overload
    THEN [status |-> 503, cache |-> c, calls |-> <<>>]
  ELSE LET h == [cache  |-> cleanup(c, t1),
                 result |-> Key(msg.device_id, msg.sequence_id)
                              \in DOMAIN cleanup(c, t1)] IN
    IF h.result
      THEN [status |-> 409, cache |-> h.cache, calls |-> <<"has_seen">>]
    ELSE IF msg.sequence_id < 0
      THEN [status |-> 400, cache |-> h.cache, calls |-> <<"has_seen">>]
      ELSE [status |-> 200,
            cache  |-> [k \in DOMAIN h.cache
                               \cup {Key(msg.device_id, msg.sequence_id)} |->
                          IF k = Key(msg.device_id, msg.sequence_id)
                            THEN t2 + ttl_seconds ELSE h.cache[k]],
            calls  |-> <<"has_seen", "mark_seen">>]

\* (variant: the accept path does not consult has_seen)
ingest_telemetry_no_dedup(c, t1, t2, msg, overload) ==
  IF overload
    THEN [status |-> 503, cache |-> c, calls |-> <<>>]
  ELSE IF msg.sequence_id < 0
    THEN [status |-> 400, cache |-> c, calls |-> <<>>]
  ELSE [status |-> 200,
        cache  |-> mark_seen(c, t2, msg.device_id, msg.sequence_id),
        calls  |-> <<"mark_seen">>]

\* (variant: the overload gate comes after the dedup check)
ingest_telemetry_overload_after_dedup(c, t1, t2, msg, overload) ==
  IF msg.sequence_id < 0 /\ ~overload
    THEN [status |-> 400, cache |-> c, calls |-> <<>>]
  ELSE LET h == has_seen(c, t1, msg.device_id, msg.sequence_id) IN
    IF overload
      THEN [status |-> 503, cache |-> h.cache, calls |-> <<"has_seen">>]
    ELSE IF h.result
      THEN [status |-> 409, cache |-> h.cache, calls |-> <<"has_seen">>]
      ELSE [status |-> 200,
            cache  |-> mark_seen(h.cache, t2, msg.device_id, msg.sequence_id),
            calls  |-> <<"has_seen", "mark_seen">>]

\* (variant: the duplicate path marks the message seen again)
ingest_telemetry_mark_on_duplicate(c, t1, t2, msg, overload) ==
  IF overload
    THEN [status |-> 503, cache |-> c, calls |-> <<>>]
  ELSE IF msg.sequence_id < 0
    THEN [status |-> 400, cache |-> c, calls |-> <<>>]
  ELSE LET h == has_seen(c, t1, msg.device_id, msg.sequence_id) IN
    [status |-> IF h.result THEN 409 ELSE 200,
     cache  |-> mark_seen(h.cache, t2, msg.device_id, msg.sequence_id),
     calls  |-> <<"has_seen", "mark_seen">>]

\* One request handled from start to end: overload is the outcome of
\* random.random() < OVERLOAD_PROBABILITY, t1 the clock at has_seen and t2 the
\* clock at mark_seen.  calls lists the cache methods the request called.
ingest_telemetry(c, t1, t2, msg, overload) ==
  IF overload
    THEN [status |-> 503, cache |-> c, calls |-> <<>>]
  ELSE IF msg.sequence_id < 0
    THEN [status |-> 400, cache |-> c, calls |-> <<>>]
  ELSE LET h == has_seen(c, t1, msg.device_id, msg.sequence_id) IN
    IF h.result
      THEN [status |-> 409, cache |-> h.cache, calls |-> <<"has_seen">>]
      ELSE [status |-> 200,
            cache  |-> mark_seen(h.cache, t2, msg.device_id, msg.sequence_id),
            calls  |-> <<"has_seen", "mark_seen">>]

\* ------------------------------------------------------------ initial state
\* message_cache = MessageCache(ttl_seconds=300): an empty cache
InitClock == now = 0 /\ ticks = 0 /\ cache = EmptyCache
InitHistory ==
  last = NoRequest /\ nreq = 0 /\ submitted = {} /\ accExpiry = EmptyCache
InitThreads ==
  /\ tpc = [t \in Threads |-> "idle"]
  /\ treq = [t \in Threads |-> NoMessage]
  /\ tstatus = [t \in Threads |-> 0]

\* main(): sequence_id = 0, nothing generated or sent yet
InitDevice ==
  /\ dpc = "generate"
  /\ sequence_id = 0
  /\ telemetry = NoMessage
  /\ call = 1
  /\ attempt = 0
  /\ ret = <<"none", "none">>
  /\ ntx = 0
  /\ nsleep = 0
  /\ allTransient = TRUE
  /\ outcome = NoResponse
  /\ delay = 0
  /\ decided = {}
  /\ fate = NoFate
  /\ interruptedAt = "none"

\* calculate_backoff not called
InitNoBackoff == b_attempt = 0 /\ b_sample = 0 /\ b_result = NoDelay

\* ------------------------------------------------- receiver, one at a time
InitReceiver ==
  InitClock /\ InitHistory /\ InitThreads /\ InitDevice /\ InitNoBackoff

Tick(dt) ==
  /\ ticks < MaxTicks
  /\ now' = now + dt
  /\ ticks' = ticks + 1
  /\ UNCHANGED <<cache, rvars, tvars, dvars, bvars>>

\* the receiver handles one request from start to end
Handle(d, s, o, el) ==
  /\ el = 0 \/ ticks < MaxTicks
  /\ LET r == ingest_telemetry(cache, now, now + el,
                               [device_id |-> d, sequence_id |-> s], o) IN
       /\ cache' = r.cache
       /\ last' = [device_id |-> d, sequence_id |-> s, overload |-> o,
                   status |-> r.status, calls |-> r.calls, at |-> now,
                   prior |-> IF Key(d, s) \in DOMAIN cache
                               THEN cache[Key(d, s)] ELSE -1]
       /\ accExpiry' =
            IF r.status = 200
              THEN [k \in DOMAIN accExpiry \cup {Key(d, s)} |->
                      IF k = Key(d, s) THEN r.cache[k] ELSE accExpiry[k]]
              ELSE accExpiry
  /\ submitted' = IF o THEN submitted ELSE submitted \cup {Key(d, s)}
  /\ now' = now + el
  /\ ticks' = IF el = 0 THEN ticks ELSE ticks + 1

HandleRequest(d, s, o, el) ==
  /\ nreq < MaxRequests
  /\ Handle(d, s, o, el)
  /\ nreq' = nreq + 1
  /\ UNCHANGED <<tvars, dvars, bvars>>

NextReceiver ==
  \/ \E dt \in TickSteps : Tick(dt)
  \/ \E d \in Devices, s \in SequenceIds, o \in BOOLEAN, el \in Elapsed :
       HandleRequest(d, s, o, el)

SpecReceiver == InitReceiver /\ [][NextReceiver]_vars

\* a step of the one-at-a-time receiver that handles a request
Handled == nreq' = nreq + 1
\* the cache key of the request handled last / by this step
LastKey == Key(last.device_id, last.sequence_id)

\* C2 as amended: for requests handled one at a time, a key is never Accepted
\* while an unexpired entry for it exists; the first submission of a key with
\* sequence_id >= 0 that passes the overload gate is Accepted; every later
\* such submission before the entry's expiry is DuplicateAcknowledged; and two
\* Accepted outcomes for one key are separated by the expiry of its entry.
C2_AcceptOncePerEntry ==
  [][Handled =>
       LET k == LastKey' IN
         /\ last'.status = 200 => ~(k \in DOMAIN cache /\ cache[k] >= now)
         /\ (~last'.overload /\ k \notin submitted /\ last'.sequence_id >= 0)
              => last'.status = 200
         /\ (~last'.overload /\ k \in DOMAIN cache /\ now < cache[k])
              => last'.status = 409
         /\ (last'.status = 200 /\ k \in DOMAIN accExpiry) => now > accExpiry[k]
    ]_vars

\* C2 as stated: as above, but the first submission of any key that passes
\* the overload gate is Accepted, whatever its sequence_id.
C2_AsStated ==
  [][Handled =>
       LET k == LastKey' IN
         /\ last'.status = 200 => ~(k \in DOMAIN cache /\ cache[k] >= now)
         /\ (~last'.overload /\ k \notin submitted) => last'.status = 200
         /\ (~last'.overload /\ k \in DOMAIN cache /\ now < cache[k])
              => last'.status = 409
         /\ (last'.status = 200 /\ k \in DOMAIN accExpiry) => now > accExpiry[k]
    ]_vars

\* C2 witness: a key Accepted earlier is submitted again before its expiry
\* and answered DuplicateAcknowledged.
C2_Witness ==
  /\ last.status = 409
  /\ LastKey \in DOMAIN accExpiry
  /\ last.at < accExpiry[LastKey]

\* C5: a request with sequence_id < 0 that passes the overload gate is
\* Rejected (400) whatever the cache holds, calls neither has_seen nor
\* mark_seen, leaves the cache as it was, and its key is not in the cache.
C5_NegativeRejected ==
  [][(Handled /\ last'.sequence_id < 0 /\ ~last'.overload) =>
       /\ last'.status = 400
       /\ last'.calls = <<>>
       /\ cache' = cache
       /\ LastKey' \notin DOMAIN cache'
    ]_vars

\* C5 witness: a negative sequence_id was Rejected while the cache held
\* entries, an entry of the same device among them.
C5_Witness ==
  /\ last.status = 400
  /\ last.sequence_id < 0
  /\ Key(last.device_id, 0) \in DOMAIN cache

\* C7: with an entry for (d, s) written by mark_seen at time t (expiry
\* t + TTL), has_seen(d, s) before t + TTL returns true (the request ends 409)
\* and leaves the expiry as it was; has_seen(d, s) after t + TTL returns false
\* and sweeps the entry, and the request is Accepted again with a fresh
\* expiry of its own mark_seen time + TTL.
C7_SeenWithinTTL ==
  [][(Handled /\ last'.calls # <<>>) =>
       LET k == LastKey'
           h == has_seen(cache, now, last'.device_id, last'.sequence_id) IN
         /\ (k \in DOMAIN cache /\ now < cache[k]) =>
              /\ h.result
              /\ last'.status = 409
              /\ k \in DOMAIN cache' /\ cache'[k] = cache[k]
         /\ (k \in DOMAIN cache /\ now > cache[k]) =>
              /\ ~h.result
              /\ k \notin DOMAIN h.cache
              /\ last'.status = 200
         /\ last'.status = 200 => cache'[k] = now' + ttl_seconds
    ]_vars

\* C7 witness: a key whose entry had expired is Accepted again.
C7_Witness ==
  /\ last.status = 200
  /\ last.prior >= 0
  /\ last.at > last.prior

\* the request handled last called mark_seen
CalledMarkSeen(req) ==
  \E i \in DOMAIN req.calls : req.calls[i] = "mark_seen"

\* C15: a request calls mark_seen only after it called has_seen, which found
\* no unexpired entry for the key, and such a request ends Accepted; requests
\* that end Overloaded, Rejected or DuplicateAcknowledged do not call
\* mark_seen; so an entry that the request found present keeps its expiry.
C15_MarkAfterMiss ==
  [][Handled =>
       LET k == LastKey'
           present == k \in DOMAIN cache /\ cache[k] >= now
       IN
         /\ CalledMarkSeen(last') =>
              /\ last'.calls = <<"has_seen", "mark_seen">>
              /\ ~present
              /\ last'.status = 200
         /\ last'.status \in {503, 400, 409} => ~CalledMarkSeen(last')
         /\ last'.status = 200 => CalledMarkSeen(last')
         /\ present => k \in DOMAIN cache' /\ cache'[k] = cache[k]
    ]_vars

\* C15 witness: a request found its key present, ended 409 without calling
\* mark_seen, and the entry has the expiry it had on arrival, at a later time
\* than the one it was written at.
C15_Witness ==
  /\ last.status = 409
  /\ last.calls = <<"has_seen">>
  /\ LastKey \in DOMAIN cache /\ cache[LastKey] = last.prior
  /\ last.at > last.prior - ttl_seconds

\* C16: the overload gate alone decides on Overloaded (503), before validation
\* and before any cache call: the request calls neither has_seen nor
\* mark_seen and the cache after it equals the cache before it, expired
\* entries included, also for a negative sequence_id or a cached key.
C16_OverloadedTouchesNothing ==
  [][Handled =>
       /\ last'.overload <=> last'.status = 503
       /\ last'.status = 503 =>
            /\ last'.calls = <<>>
            /\ cache' = cache
    ]_vars

\* C16 witness: a request for a key whose entry had already expired ended
\* Overloaded, and the expired entry is still in the cache.
C16_Witness ==
  /\ last.status = 503
  /\ last.prior >= 0 /\ last.prior < last.at
  /\ LastKey \in DOMAIN cache /\ cache[LastKey] = last.prior

\* C17 as amended: a request that ends DuplicateAcknowledged (409) adds no
\* entry and changes no expiry: the entries that are unexpired on its arrival
\* are all kept as they are, the duplicated key's expiry being the one set
\* when it was Accepted; what it removes are exactly the entries of other
\* keys that had expired by its arrival.
C17_DuplicateKeepsLiveEntries ==
  [][(Handled /\ last'.status = 409) =>
       /\ DOMAIN cache' = {x \in DOMAIN cache : cache[x] >= now}
       /\ \A x \in DOMAIN cache' : cache'[x] = cache[x]
       /\ LastKey' \in DOMAIN cache'
       /\ LastKey' \in DOMAIN accExpiry
       /\ cache'[LastKey'] = accExpiry[LastKey']
    ]_vars

\* C17 as stated: a request that ends DuplicateAcknowledged (409) leaves the
\* cache as it was: no entry added or removed, no expiry changed.
C17_AsStated ==
  [][(Handled /\ last'.status = 409) =>
       /\ cache' = cache
       /\ LastKey' \in DOMAIN accExpiry
       /\ cache'[LastKey'] = accExpiry[LastKey']
    ]_vars

\* C17 witness: two keys were Accepted, the second while the first's entry
\* was unexpired; the third request, a duplicate of one of them answered 409,
\* came after the other's expiry and swept that entry.
C17_Witness ==
  /\ nreq = 3
  /\ last.status = 409
  /\ \E x \in DOMAIN accExpiry :
       /\ x # LastKey
       /\ x \notin DOMAIN cache
       /\ accExpiry[x] < last.at
       /\ accExpiry[x] >= accExpiry[LastKey] - ttl_seconds


\* ------------------------------------------- receiver, concurrent requests
\* ingest_telemetry is a plain def endpoint: the server runs each request on a
\* worker thread, nothing guards message_cache, and a thread switch can fall
\* between a request's has_seen and its mark_seen.
InitConcurrent ==
  InitClock /\ InitHistory /\ InitThreads /\ InitDevice /\ InitNoBackoff

\* a request arrives: overload gate, then validation
Receive(t, d, s, o) ==
  /\ tpc[t] = "idle"
  /\ treq' = [treq EXCEPT ![t] =
                 [device_id |-> d, sequence_id |-> s, overload |-> o]]
  /\ IF o
       THEN tstatus' = [tstatus EXCEPT ![t] = 503] /\ tpc' = [tpc EXCEPT ![t] = "done"]
     ELSE IF s < 0
       THEN tstatus' = [tstatus EXCEPT ![t] = 400] /\ tpc' = [tpc EXCEPT ![t] = "done"]
     ELSE tstatus' = tstatus /\ tpc' = [tpc EXCEPT ![t] = "has_seen"]
  /\ UNCHANGED <<cvars, rvars, dvars, bvars>>

\* if message_cache.has_seen(...): raise HTTPException(409)
HasSeen(t) ==
  /\ tpc[t] = "has_seen"
  /\ LET h == has_seen(cache, now, treq[t].device_id, treq[t].sequence_id) IN
       /\ cache' = h.cache
       /\ IF h.result
            THEN tstatus' = [tstatus EXCEPT ![t] = 409]
                 /\ tpc' = [tpc EXCEPT ![t] = "done"]
            ELSE tstatus' = tstatus
                 /\ tpc' = [tpc EXCEPT ![t] = "mark_seen"]
  /\ UNCHANGED <<now, ticks, rvars, treq, dvars, bvars>>

\* message_cache.mark_seen(...); return IngestResponse(status="accepted")
MarkSeen(t) ==
  /\ tpc[t] = "mark_seen"
  /\ cache' = mark_seen(cache, now, treq[t].device_id, treq[t].sequence_id)
  /\ tstatus' = [tstatus EXCEPT ![t] = 200]
  /\ tpc' = [tpc EXCEPT ![t] = "done"]
  /\ UNCHANGED <<now, ticks, rvars, treq, dvars, bvars>>

NextConcurrent ==
  \/ \E dt \in TickSteps : Tick(dt)
  \/ \E t \in Threads, d \in Devices, s \in SequenceIds, o \in BOOLEAN :
       Receive(t, d, s, o)
  \/ \E t \in Threads : HasSeen(t)
  \/ \E t \in Threads : MarkSeen(t)

SpecConcurrent == InitConcurrent /\ [][NextConcurrent]_vars

\* C1: when all the worker threads have handled requests for one and the same
\* key with sequence_id >= 0, none of them stopped by the overload gate, the
\* cache empty beforehand and no entry old enough to have expired, exactly one
\* request ended Accepted (200) and all the others DuplicateAcknowledged (409).
C1_ExactlyOneAccepted ==
  (/\ \A t \in Threads : tpc[t] = "done" /\ ~treq[t].overload
   /\ \A t \in Threads : treq[t].device_id = treq[1].device_id
                          /\ treq[t].sequence_id = treq[1].sequence_id
   /\ treq[1].sequence_id >= 0
   /\ now <= ttl_seconds)
  => /\ Cardinality({t \in Threads : tstatus[t] = 200}) = 1
     /\ Cardinality({t \in Threads : tstatus[t] = 409}) = NThreads - 1

\* ------------------------------------------------------------ the device
Min(a, b) == IF a < b THEN a ELSE b
Max(a, b) == IF a > b THEN a ELSE b

\* samples of random.uniform(-BACKOFF_JITTER_RANGE, BACKOFF_JITTER_RANGE), in
\* thousandths: both ends and the centre
JitterSamples == {-BACKOFF_JITTER_RANGE, 0, BACKOFF_JITTER_RANGE}

\* BASE_BACKOFF_SECONDS * (2 ** attempt) multiplies a float by an int: the
\* int is converted to a float first, and from 2 ** 1024 on that conversion
\* raises OverflowError
FloatMaxExp == 1024

\* min(BASE_BACKOFF_SECONDS * (2 ** attempt), MAX_BACKOFF_SECONDS); from
\* 2 ** 5 on the product is above the cap, and the power is only taken up to
\* 2 ** 20 to stay inside the model checker's integers
backoff_centre(att) ==
  IF att <= 20
    THEN Min(BASE_BACKOFF_MS * 2 ^ att, MAX_BACKOFF_MS)
    ELSE MAX_BACKOFF_MS

\* calculate_backoff with u the jitter sample: what it returns, or that it
\* raised
calculate_backoff(att, u) ==
  IF att >= FloatMaxExp
    THEN [raised |-> TRUE, value |-> 0]
    ELSE LET backoff == backoff_centre(att)
             jitter  == (backoff * u) \div 1000
         IN  [raised |-> FALSE, value |-> Max(MIN_DELAY_MS, backoff + jitter)]

\* (variant: the retry bound is off by one, the last attempt sleeps too)
RetryAllowed_inclusive(att) == att <= MAX_RETRIES

\* if attempt < MAX_RETRIES: sleep and continue
RetryAllowed(att) == att < MAX_RETRIES

\* (variant: the loop index does not advance)
NextAttempt_stuck(att) == att

\* for attempt in range(MAX_RETRIES + 1): the index after att
NextAttempt(att) == att + 1

\* (variant: 503 is missing from the list of transient statuses)
is_transient_error_no_503(status_code, exception) ==
  IF exception # "None"
    THEN exception \in {"Timeout", "ConnectionError"}
    ELSE status_code \in {429, 504}

\* (variant: 500 and 404 are retried as well)
is_transient_error_unknown_retried(status_code, exception) ==
  IF exception # "None"
    THEN exception \in {"Timeout", "ConnectionError"}
    ELSE status_code \in {429, 500, 503, 504, 404}

is_transient_error(status_code, exception) ==
  IF exception # "None"
    THEN IF exception \in {"Timeout", "ConnectionError"} THEN TRUE ELSE FALSE
  ELSE IF status_code # 0
    THEN IF status_code \in {429, 503, 504} THEN TRUE
         ELSE IF status_code \in {400, 401, 403, 409} THEN FALSE
         ELSE FALSE
  ELSE FALSE

\* the outcomes the sender's documentation lists as transient
ListedTransient(resp) ==
  \/ resp.exception \in {"Timeout", "ConnectionError"}
  \/ resp.exception = "None" /\ resp.status \in {429, 503, 504}

\* (variant: no branch of its own for 409, which is_transient_error then
\* reports as not transient)
send_with_retry_409_fails(resp, att) ==
  IF resp.exception \in {"Timeout", "ConnectionError"}
    THEN IF RetryAllowed(att) THEN "retry" ELSE "False"
  ELSE IF resp.exception # "None"
    THEN "False"
  ELSE IF resp.status = 200 THEN "True"
  ELSE IF resp.status \in {429, 503, 504}
    THEN IF RetryAllowed(att) THEN "retry" ELSE "False"
  ELSE "False"

\* (variant: every status below 500 counts as delivered)
send_with_retry_4xx_delivered(resp, att) ==
  IF resp.exception \in {"Timeout", "ConnectionError"}
    THEN IF RetryAllowed(att) THEN "retry" ELSE "False"
  ELSE IF resp.exception # "None"
    THEN "False"
  ELSE IF resp.status < 500 THEN "True"
  ELSE IF is_transient_error(resp.status, "None")
    THEN IF RetryAllowed(att) THEN "retry" ELSE "False"
  ELSE "False"

\* One pass of send_with_retry's loop body after requests.post gave resp:
\* "True" / "False": the call returns that; "retry": it sleeps a backoff and
\* continues with the next attempt.
send_with_retry(resp, att) ==
  IF resp.exception \in {"Timeout", "ConnectionError"}
    THEN IF RetryAllowed(att) THEN "retry" ELSE "False"
  ELSE IF resp.exception # "None"
    THEN "False"
  ELSE IF resp.status = 200 THEN "True"
  ELSE IF resp.status = 409 THEN "True"
  ELSE IF is_transient_error(resp.status, "None")
    THEN IF RetryAllowed(att) THEN "retry" ELSE "False"
  ELSE "False"

generate_telemetry(seq) ==
  [device_id |-> DEVICE_ID, sequence_id |-> seq, overload |-> FALSE]

\* statuses that do not come from ingest_telemetry's own branches (a proxy, the
\* framework's error pages) but that the device's code tells apart
OtherStatuses == {400, 401, 403, 404, 429, 500, 504}

\* What the network does with one requests.post: whether ingest_telemetry
\* handles the request, and whether the device gets its response (exception
\* "None", status 0), an exception instead, or a response of another status.
Transport ==
  {[handled |-> TRUE, exception |-> "None", status |-> 0]}
  \cup {[handled |-> h, exception |-> e, status |-> 0] :
          h \in BOOLEAN, e \in {"Timeout", "ConnectionError"}}
  \cup {[handled |-> FALSE, exception |-> "Exception", status |-> 0]}
  \cup {[handled |-> FALSE, exception |-> "None", status |-> st] :
          st \in OtherStatuses}

InitDeviceSpec ==
  InitClock /\ InitHistory /\ InitThreads /\ InitDevice /\ InitNoBackoff

\* while the device runs the clock advances past a whole TTL
DeviceTickSteps == {ttl_seconds + 1}

DeviceTick(dt) ==
  /\ ticks < MaxDeviceTicks
  /\ Tick(dt)

\* (variant: the drop decision does not end the cycle)
CycleEntry_drop_ignored(drop, jitter) ==
  IF jitter THEN "jitter_sleep" ELSE "send"

\* where main stands after simulate_packet_drop() and, when that returned
\* False, simulate_jitter()
CycleEntry(drop, jitter) ==
  IF drop THEN "drop_sleep"
  ELSE IF jitter THEN "jitter_sleep" ELSE "send"

\* (variant: the sequence_id is kept for the next cycle)
NextSequenceId_requeue(seq) == seq

\* sequence_id += 1
NextSequenceId(seq) == seq + 1

\* the cycle of sequence_id seq ended as how
Ended(f, seq, how) ==
  [k \in DOMAIN f \cup {seq} |-> IF k = seq THEN how ELSE f[k]]

\* how a cycle's message ended, from what its send_with_retry calls returned
CycleOutcome(r) ==
  IF r[1] = "True" \/ r[2] = "True" THEN "Delivered" ELSE "PermanentlyFailed"

\* top of main's loop: generate the message, drop decision, jitter decision
CycleStart(drop, jitter) ==
  /\ dpc = "generate"
  /\ sequence_id < MaxCycles
  \* jitter is simulate_jitter's: when it is not called there is nothing to
  \* choose
  /\ drop => ~jitter
  /\ telemetry' = generate_telemetry(sequence_id)
  /\ ret' = <<"none", "none">>
  /\ call' = 1 /\ attempt' = 0 /\ ntx' = 0 /\ nsleep' = 0
  /\ allTransient' = TRUE /\ outcome' = NoResponse /\ delay' = 0
  /\ dpc' = CycleEntry(drop, jitter)
  /\ IF drop
       THEN /\ sequence_id' = NextSequenceId(sequence_id)
            /\ decided' = {"drop"}
            /\ fate' = Ended(fate, sequence_id, "dropped")
       ELSE /\ sequence_id' = sequence_id
            /\ decided' = {"drop", "jitter"}
            /\ fate' = fate
  /\ UNCHANGED <<cvars, rvars, tvars, bvars, interruptedAt>>

\* simulate_jitter's time.sleep(delay) ends
JitterWake ==
  /\ dpc = "jitter_sleep"
  /\ dpc' = "send"
  /\ UNCHANGED <<cvars, rvars, tvars, bvars, sequence_id, telemetry, call, attempt,
                 ret, ntx, nsleep, allTransient, outcome, delay, decided, fate,
                 interruptedAt>>

\* what send_with_retry's loop body does once requests.post gave resp; h tells
\* whether ingest_telemetry handled the request, u is the jitter sample of
\* calculate_backoff (without a backoff there is nothing to choose)
AttemptResult(resp, h, u) ==
  LET step == send_with_retry(resp, attempt) IN
    /\ outcome' = [status |-> resp.status, exception |-> resp.exception,
                    handled |-> h]
    /\ ntx' = ntx + 1
    /\ allTransient' = (allTransient /\ ListedTransient(resp))
    /\ step = "retry" \/ u = 0
    /\ IF step = "retry"
         THEN /\ delay' = calculate_backoff(attempt, u).value
              /\ nsleep' = nsleep + 1
              /\ dpc' = "backoff_sleep"
              /\ ret' = ret
         ELSE /\ delay' = 0
              /\ nsleep' = nsleep
              /\ dpc' = "returned"
              /\ ret' = [ret EXCEPT ![call] = step]

\* one attempt of send_with_retry: requests.post and what the loop body does
\* with its result (the handler runs at one reading of the clock here)
SendAttempt(tr, o, u) ==
  /\ dpc = "send"
  \* o is the handler's: without a handler run there is nothing to choose
  /\ tr.handled \/ ~o
  /\ LET r == ingest_telemetry(cache, now, now, telemetry, o)
         resp == IF tr.handled /\ tr.exception = "None"
                   THEN [status |-> r.status, exception |-> "None"]
                   ELSE [status |-> tr.status, exception |-> tr.exception]
     IN AttemptResult(resp, tr.handled, u)
  /\ IF tr.handled
       THEN Handle(telemetry.device_id, telemetry.sequence_id, o, 0)
       ELSE UNCHANGED <<cvars, last, submitted, accExpiry>>
  /\ UNCHANGED <<nreq, tvars, bvars, sequence_id, telemetry, call, attempt,
                 decided, fate, interruptedAt>>

\* time.sleep(backoff) ends; continue with the next attempt, which reads
\* nothing of the finished attempt's response
BackoffWake ==
  /\ dpc = "backoff_sleep"
  /\ delay' = 0
  /\ outcome' = NoResponse
  /\ IF NextAttempt(attempt) <= MAX_RETRIES
       THEN /\ dpc' = "send"
            /\ attempt' = NextAttempt(attempt)
            /\ ret' = ret
       ELSE \* the range is used up: the return False after the loop
            /\ dpc' = "returned"
            /\ attempt' = attempt
            /\ ret' = [ret EXCEPT ![call] = "False"]
  /\ UNCHANGED <<cvars, rvars, tvars, bvars, sequence_id, telemetry, call, ntx,
                 nsleep, allTransient, decided, fate, interruptedAt>>

\* the cycle's send_with_retry calls are over: their locals and results are gone
CallFrameGone ==
  /\ attempt' = 0 /\ ntx' = 0 /\ nsleep' = 0
  /\ allTransient' = TRUE /\ outcome' = NoResponse
  /\ ret' = <<"none", "none">>

\* the first send_with_retry returned (its result is dropped): the duplicate
\* decision, then either the pause before the resend or the end of the cycle
SimulateDuplicate(dup) ==
  /\ dpc = "returned"
  /\ call = 1
  /\ decided' = decided \cup {"duplicate"}
  /\ IF dup
       THEN /\ dpc' = "dup_pause"
            /\ UNCHANGED <<sequence_id, attempt, ret, ntx, nsleep,
                           allTransient, outcome, fate>>
       ELSE /\ dpc' = "cycle_sleep"
            /\ sequence_id' = NextSequenceId(sequence_id)
            /\ fate' = Ended(fate, sequence_id, CycleOutcome(ret))
            /\ CallFrameGone
  /\ UNCHANGED <<cvars, rvars, tvars, bvars, telemetry, call, delay,
                 interruptedAt>>

\* (variant: the resend carries a freshly numbered message)
ResendMessage_renumbered(msg) ==
  [msg EXCEPT !.sequence_id = msg.sequence_id + 1]

\* the argument of the second send_with_retry(telemetry): main's telemetry
ResendMessage(msg) == msg

\* time.sleep(0.5) ends; send_with_retry(telemetry) is called again
DupPauseWake ==
  /\ dpc = "dup_pause"
  /\ dpc' = "send"
  /\ telemetry' = ResendMessage(telemetry)
  /\ call' = 2 /\ attempt' = 0 /\ ntx' = 0 /\ nsleep' = 0
  /\ allTransient' = TRUE /\ outcome' = NoResponse /\ delay' = 0
  /\ UNCHANGED <<cvars, rvars, tvars, bvars, sequence_id, ret,
                 decided, fate, interruptedAt>>

\* the resend returned: sequence_id += 1, sleep until the next cycle
EndCycle ==
  /\ dpc = "returned"
  /\ call = 2
  /\ dpc' = "cycle_sleep"
  /\ sequence_id' = NextSequenceId(sequence_id)
  /\ fate' = Ended(fate, sequence_id, CycleOutcome(ret))
  /\ CallFrameGone
  /\ UNCHANGED <<cvars, rvars, tvars, bvars, telemetry, call, delay, decided,
                 interruptedAt>>

\* time.sleep(TELEMETRY_INTERVAL_SECONDS) ends, after a drop or a cycle
IntervalWake ==
  /\ dpc \in {"drop_sleep", "cycle_sleep"}
  /\ dpc' = "generate"
  /\ UNCHANGED <<cvars, rvars, tvars, bvars, sequence_id, telemetry, call, attempt,
                 ret, ntx, nsleep, allTransient, outcome, delay, decided, fate,
                 interruptedAt>>

\* the exception classes with their base classes
BaseClasses(exc) ==
  IF exc = "KeyboardInterrupt"
    THEN {"KeyboardInterrupt", "BaseException"}
    ELSE {exc, "Exception", "BaseException"}

\* (variant: the last clause of send_with_retry is a bare except)
send_with_retry_catches_all(exc) == TRUE

\* send_with_retry's except clauses: Timeout, ConnectionError, Exception
send_with_retry_catches(exc) ==
  \/ "Timeout" \in BaseClasses(exc)
  \/ "ConnectionError" \in BaseClasses(exc)
  \/ "Exception" \in BaseClasses(exc)

\* KeyboardInterrupt is raised where main stands.  Inside send_with_retry's
\* try block a clause that catches it makes the call return False; otherwise
\* it reaches main's except clause: sys.exit(0), the process and with it
\* main's and send_with_retry's locals are gone
Interrupt ==
  /\ interruptedAt = "none"
  /\ dpc # "stopped"
  /\ interruptedAt' = dpc
  /\ IF dpc \in {"send", "backoff_sleep"}
          /\ send_with_retry_catches("KeyboardInterrupt")
       THEN /\ dpc' = "returned"
            /\ ret' = [ret EXCEPT ![call] = "False"]
            /\ UNCHANGED <<sequence_id, telemetry, call, attempt, ntx, nsleep,
                           allTransient, outcome, decided, fate>>
       ELSE /\ dpc' = "stopped"
            /\ sequence_id' = 0 /\ telemetry' = NoMessage /\ call' = 1
            /\ decided' = {} /\ fate' = NoFate
            /\ CallFrameGone
  /\ delay' = 0
  /\ UNCHANGED <<cvars, rvars, tvars, bvars>>

NextDevice ==
  \/ \E dt \in DeviceTickSteps : DeviceTick(dt)
  \/ \E drop \in BOOLEAN, jitter \in BOOLEAN : CycleStart(drop, jitter)
  \/ JitterWake
  \/ \E tr \in Transport, o \in BOOLEAN, u \in JitterSamples :
       SendAttempt(tr, o, u)
  \/ BackoffWake
  \/ \E dup \in BOOLEAN : SimulateDuplicate(dup)
  \/ DupPauseWake
  \/ EndCycle
  \/ IntervalWake
  \/ Interrupt

SpecDevice == InitDeviceSpec /\ [][NextDevice]_vars

\* a step that makes one requests.post call
Attempted == ntx' = ntx + 1

\* C3: a response of status 429, 503 or 504 and a timeout or connection error
\* are transient failures: the call sleeps a backoff and goes on while the
\* attempt index is below MAX_RETRIES, and returns False at MAX_RETRIES; a
\* status 400, 401 or 403 makes send_with_retry return False at once, with no
\* sleep and no retry; status 200 and status 409 make it return True.
C3_Classification ==
  [][Attempted =>
       /\ ListedTransient(outcome') =>
            /\ is_transient_error(outcome'.status, outcome'.exception)
            /\ IF attempt < MAX_RETRIES
                 THEN dpc' = "backoff_sleep" /\ nsleep' = nsleep + 1
                 ELSE dpc' = "returned" /\ ret'[call] = "False"
       /\ (outcome'.exception = "None" /\ outcome'.status \in {400, 401, 403}) =>
            /\ ~is_transient_error(outcome'.status, outcome'.exception)
            /\ dpc' = "returned" /\ ret'[call] = "False" /\ nsleep' = nsleep
       /\ (outcome'.exception = "None" /\ outcome'.status \in {200, 409}) =>
            dpc' = "returned" /\ ret'[call] = "True" /\ nsleep' = nsleep
    ]_vars

\* C3 witness: the first send_with_retry of a cycle returned True on a 409,
\* after a retry.
C3_Witness ==
  /\ dpc = "returned" /\ call = 1
  /\ outcome.status = 409 /\ ret[1] = "True" /\ attempt >= 1

\* C4: a send_with_retry call whose attempts all ended in a listed transient
\* failure returns False after exactly MAX_RETRIES + 1 transmissions and
\* exactly MAX_RETRIES backoff sleeps; in every call one sleep lies between
\* two consecutive transmissions and none follows the last one.
C4_ExhaustedRetries ==
  /\ (dpc = "returned" /\ allTransient) =>
        /\ ntx = MAX_RETRIES + 1
        /\ nsleep = MAX_RETRIES
        /\ ret[call] = "False"
  /\ dpc = "send" => nsleep = ntx /\ ntx = attempt
  /\ dpc = "backoff_sleep" => nsleep = ntx
  /\ dpc = "returned" => nsleep = ntx - 1

\* C4 witness: a call returned after MAX_RETRIES + 1 transient failures, the
\* last of them a timeout.
C4_Witness ==
  /\ dpc = "returned" /\ allTransient
  /\ ntx = MAX_RETRIES + 1
  /\ outcome.exception = "Timeout"

\* C6: when the overload gate fires on an attempt the receiver answers 503
\* for the device's message; a 503 response is a transient failure, and with
\* the attempt index below MAX_RETRIES the device starts one backoff sleep of
\* at least the minimum delay; from that sleep it goes on only to the next
\* attempt, index one higher, with the same message (or is interrupted).
C6_OverloadRetried ==
  [][/\ (Attempted /\ outcome'.handled) =>
          /\ last'.device_id = telemetry.device_id
          /\ last'.sequence_id = telemetry.sequence_id
          /\ last'.overload =>
               /\ last'.status = 503
               /\ outcome'.exception = "None" => outcome'.status = 503
     /\ (Attempted /\ outcome'.exception = "None" /\ outcome'.status = 503) =>
          /\ outcome'.handled /\ last'.overload
          /\ is_transient_error(outcome'.status, outcome'.exception)
          /\ attempt < MAX_RETRIES =>
               /\ dpc' = "backoff_sleep"
               /\ nsleep' = nsleep + 1
               /\ delay' >= MIN_DELAY_MS
               /\ telemetry' = telemetry
     /\ dpc = "backoff_sleep" =>
          \/ dpc' = "backoff_sleep" /\ UNCHANGED <<telemetry, attempt, call>>
          \/ dpc' = "stopped"
          \/ /\ dpc' = "send"
             /\ attempt' = attempt + 1
             /\ telemetry' = telemetry
             /\ call' = call
    ]_vars

\* C6 witness: the device retransmitted after a backoff sleep, the receiver's
\* overload gate answered the retransmission 503 as well, and the device
\* sleeps the next backoff.
C6_Witness ==
  /\ dpc = "backoff_sleep" /\ attempt = 1
  /\ outcome.status = 503 /\ last.overload
  /\ last.sequence_id = telemetry.sequence_id
  /\ delay >= MIN_DELAY_MS

\* an outcome that is neither success nor a listed transient failure
FailClosedOutcome(resp) ==
  \/ resp.exception = "None" /\ resp.status \notin {200, 409, 429, 503, 504}
  \/ resp.exception \notin {"None", "Timeout", "ConnectionError"}

\* C8: an attempt whose outcome is neither success nor a listed transient
\* failure ends the send_with_retry call at once: it returns False, starts no
\* backoff sleep, and the call transmits nothing after it.
C8_FailClosed ==
  [][/\ (Attempted /\ FailClosedOutcome(outcome')) =>
          /\ dpc' = "returned"
          /\ ret'[call] = "False"
          /\ nsleep' = nsleep
          /\ delay' = 0
     /\ dpc = "returned" => ~Attempted
    ]_vars

\* C8 witness: a call returned False on a 404 answered to its second attempt.
C8_Witness ==
  /\ dpc = "returned"
  /\ outcome.status = 404 /\ attempt = 1
  /\ ret[call] = "False"

\* C10: the pause before a duplicate resend and the second send_with_retry of
\* a cycle happen only when the first send_with_retry returned True.
C10_DuplicateOnlyAfterDelivered ==
  (dpc = "dup_pause" \/ call = 2) => ret[1] = "True"

\* the cache key of the device's current message
CycleKey == Key(telemetry.device_id, telemetry.sequence_id)

C12_OneAcceptedPerCycle ==
  [][(Attempted /\ outcome'.handled) =>
       /\ last'.status = 200 =>
            ~(CycleKey \in DOMAIN cache /\ cache[CycleKey] >= now)
       /\ (last'.status = 200 /\ CycleKey \in DOMAIN accExpiry) =>
            now > accExpiry[CycleKey]
       /\ (/\ CycleKey \in DOMAIN accExpiry
           /\ now <= accExpiry[CycleKey]
           /\ ~last'.overload) =>
            /\ last'.status = 409
            /\ outcome'.exception = "None" =>
                 /\ outcome'.status = 409
                 /\ dpc' = "returned"
                 /\ ret'[call] = "True"
    ]_vars

\* C12 as stated: as above, but every attempt after the Accepted one that
\* passes the overload gate before the expiry makes the sender report
\* Delivered, whether or not the answer reaches it.
C12_AsStated ==
  [][(Attempted /\ outcome'.handled) =>
       /\ last'.status = 200 =>
            ~(CycleKey \in DOMAIN cache /\ cache[CycleKey] >= now)
       /\ (last'.status = 200 /\ CycleKey \in DOMAIN accExpiry) =>
            now > accExpiry[CycleKey]
       /\ (/\ CycleKey \in DOMAIN accExpiry
           /\ now <= accExpiry[CycleKey]
           /\ ~last'.overload) =>
            /\ last'.status = 409
            /\ dpc' = "returned"
            /\ ret'[call] = "True"
    ]_vars

\* C12 witness: every attempt of the first call was handled and then timed
\* out, so the message was Accepted and the call still returned False; the
\* duplicate resend, before the entry's expiry, was answered 409 and returned
\* True.
C12_Witness ==
  /\ dpc = "returned" /\ call = 2
  /\ ret = <<"False", "True">>
  /\ outcome.status = 409 /\ outcome.handled
  /\ CycleKey \in DOMAIN accExpiry /\ now <= accExpiry[CycleKey]

\* C13: a cycle whose drop decision triggers makes no transmission and
\* evaluates neither the jitter nor the duplicate decision: it consumes its
\* sequence_id and sleeps until the next cycle; no later step transmits the
\* dropped message.
C13_DropAbandons ==
  [][/\ (/\ sequence_id \notin DOMAIN fate
         /\ sequence_id \in DOMAIN fate'
         /\ fate'[sequence_id] = "dropped") =>
          /\ dpc = "generate" /\ dpc' = "drop_sleep"
          /\ ntx' = 0
          /\ decided' = {"drop"}
          /\ sequence_id' = sequence_id + 1
     /\ dpc = "drop_sleep" =>
          /\ ~Attempted
          /\ dpc' \in {"drop_sleep", "generate", "stopped"}
          /\ dpc' = "generate" => decided' = {"drop"} /\ ntx' = 0
     /\ Attempted =>
          ~(/\ telemetry.sequence_id \in DOMAIN fate
            /\ fate[telemetry.sequence_id] = "dropped")
    ]_vars

\* C13 witness: the message of sequence_id 0 was dropped and the next cycle
\* has transmitted the message of sequence_id 1.
C13_Witness ==
  /\ 0 \in DOMAIN fate /\ fate[0] = "dropped"
  /\ dpc = "returned" /\ ntx >= 1
  /\ telemetry.sequence_id = 1

\* C14: a KeyboardInterrupt raised while the device is suspended (jitter
\* delay, backoff sleep, pause before the resend, inter-cycle sleep) or at any
\* other point of the loop ends the loop: send_with_retry does not catch it,
\* and once stopped the device transmits, retries and resends nothing.
C14_InterruptStops ==
  [][/\ interruptedAt' # "none" => dpc' = "stopped"
     /\ (interruptedAt = "none" /\ interruptedAt' # "none") =>
          interruptedAt' = dpc
     /\ dpc = "stopped" => UNCHANGED dvars
    ]_vars

\* C14 witness: the device was interrupted in a backoff sleep, inside
\* send_with_retry's try block, and stopped.
C14_Witness ==
  /\ interruptedAt = "backoff_sleep"
  /\ dpc = "stopped"

\* C18: the cycles of the device are serialized: a transmission carries the
\* current sequence_id, which no ended cycle had; a new message is generated
\* only at the top of the loop, with no send_with_retry call in progress;
\* sequence_id changes only at the end of a cycle, by exactly one, whether the
\* cycle ended Delivered, PermanentlyFailed or dropped; so no message of an
\* ended cycle, PermanentlyFailed ones included, is transmitted again.
C18_CyclesSerialized ==
  [][dpc' # "stopped" =>
       /\ Attempted =>
            /\ telemetry.sequence_id = sequence_id
            /\ sequence_id \notin DOMAIN fate
            /\ telemetry' = telemetry
       /\ telemetry' # telemetry =>
            /\ dpc = "generate"
            /\ ntx = 0 /\ ret = <<"none", "none">>
            /\ telemetry'.sequence_id = sequence_id
            /\ sequence_id \notin DOMAIN fate
       /\ sequence_id' # sequence_id =>
            /\ sequence_id' = sequence_id + 1
            /\ dpc' \in {"drop_sleep", "cycle_sleep"}
       /\ fate' # fate =>
            /\ DOMAIN fate' = DOMAIN fate \cup {sequence_id}
            /\ fate'[sequence_id]
                 \in {"Delivered", "PermanentlyFailed", "dropped"}
            /\ sequence_id' = sequence_id + 1
       /\ DOMAIN fate' = 0..(sequence_id' - 1)
    ]_vars

\* C18 witness: the cycle of sequence_id 0 ended PermanentlyFailed and the
\* next cycle has sent the message of sequence_id 1.
C18_Witness ==
  /\ 0 \in DOMAIN fate /\ fate[0] = "PermanentlyFailed"
  /\ telemetry.sequence_id = 1 /\ sequence_id = 1
  /\ dpc = "returned" /\ ret[1] = "True"

\* C20: send_with_retry returns True only for a message whose key the
\* receiver has Accepted by then: a 409 is answered, by the receiver, only for
\* a key that an earlier request had Accepted, and a call that has returned
\* True has its message's key among the Accepted ones.
C20_DeliveredOnlyIfAccepted ==
  [][/\ Attempted =>
          /\ (outcome'.exception = "None" /\ outcome'.status = 409) =>
               /\ outcome'.handled /\ last'.status = 409
               /\ CycleKey \in DOMAIN accExpiry
          /\ (outcome'.handled /\ last'.status = 409) =>
               CycleKey \in DOMAIN accExpiry
          /\ (dpc' = "returned" /\ ret'[call] = "True") =>
               /\ outcome'.handled
               /\ CycleKey \in DOMAIN accExpiry'
     /\ \A c \in {1, 2} :
          ret'[c] = "True" =>
            Key(telemetry'.device_id, telemetry'.sequence_id)
              \in DOMAIN accExpiry'
    ]_vars

\* C20 witness: the first two attempts of a call were handled but their
\* responses were lost; the third was answered 409 for the entry the first
\* had written, and the call returned True.
C20_Witness ==
  /\ dpc = "returned" /\ call = 1 /\ attempt = 2
  /\ outcome.status = 409 /\ ret[1] = "True"
  /\ CycleKey \in DOMAIN accExpiry
  /\ last.prior = accExpiry[CycleKey]

\* ------------------------------- one send_with_retry call, any responses
\* what requests.post can give send_with_retry: a response of any status the
\* code tells apart, or an exception
Responses ==
  {[status |-> st, exception |-> "None"] :
     st \in {200, 409, 503} \cup OtherStatuses}
  \cup {[status |-> 0, exception |-> e] :
          e \in {"Timeout", "ConnectionError", "Exception"}}

\* send_with_retry(telemetry) has just been called with the first message
InitSend ==
  /\ InitClock /\ InitHistory /\ InitThreads /\ InitNoBackoff
  /\ dpc = "send"
  /\ sequence_id = 0
  /\ telemetry = generate_telemetry(0)
  /\ call = 1
  /\ attempt = 0
  /\ ret = <<"none", "none">>
  /\ ntx = 0
  /\ nsleep = 0
  /\ allTransient = TRUE
  /\ outcome = NoResponse
  /\ delay = 0
  /\ decided = {"drop", "jitter"}
  /\ fate = NoFate
  /\ interruptedAt = "none"

\* one attempt whose requests.post gives resp (200, 409 and 503 are the
\* statuses ingest_telemetry itself answers)
PostResult(resp, u) ==
  /\ dpc = "send"
  /\ AttemptResult(resp, resp.status \in {200, 409, 503}, u)
  /\ UNCHANGED <<cvars, rvars, tvars, bvars, sequence_id, telemetry, call,
                 attempt, decided, fate, interruptedAt>>

NextSend ==
  \/ \E resp \in Responses, u \in JitterSamples : PostResult(resp, u)
  \/ BackoffWake

SpecSend == InitSend /\ [][NextSend]_vars

\* the device is one sequential thread: requests.post returns or raises
\* within its timeout and every time.sleep ends
SpecSendFair == SpecSend /\ WF_vars(NextSend)

\* C19: every send_with_retry call ends, returning True or False, after at
\* most MAX_RETRIES + 1 transmissions whatever the responses and exceptions
\* are; a transmission other than the first is made only when every attempt
\* before it was a transient failure, and an attempt answered 200 or 409 or
\* ending in a terminal failure ends the call, which transmits nothing more.
C19_Terminates ==
  /\ [](ntx <= MAX_RETRIES + 1)
  /\ [](dpc = "returned" => ret[call] \in {"True", "False"})
  /\ [][/\ (Attempted /\ ntx >= 1) => allTransient
        /\ (Attempted /\ ~ListedTransient(outcome')) =>
             dpc' = "returned" /\ ~allTransient'
        /\ dpc = "returned" => ~Attempted
       ]_vars
  /\ <>(dpc = "returned")

\* C19 witness: a call returned False after MAX_RETRIES + 1 transmissions,
\* the last of them answered 503.
C19_Witness ==
  /\ dpc = "returned" /\ ret[call] = "False"
  /\ ntx = MAX_RETRIES + 1
  /\ outcome.status = 503

\* ------------------------------------------------------ calculate_backoff
InitBackoff ==
  /\ InitClock /\ InitHistory /\ InitThreads /\ InitDevice
  /\ b_attempt \in 0..MaxAttempt
  /\ b_sample \in JitterSamples
  /\ b_result = NoDelay

CalculateBackoff ==
  /\ b_result = NoDelay
  /\ b_result' = calculate_backoff(b_attempt, b_sample)
  /\ UNCHANGED <<cvars, rvars, tvars, dvars, b_attempt, b_sample>>

NextBackoff == CalculateBackoff

SpecBackoff == InitBackoff /\ [][NextBackoff]_vars

\* C9: for every attempt index a >= 0 and every jitter sample,
\* calculate_backoff(a) returns a delay within [0.1, 1.5 * MAX_BACKOFF_SECONDS],
\* and the centre min(BASE_BACKOFF_SECONDS * 2^a, MAX_BACKOFF_SECONDS) does not
\* decrease from a to a + 1.
C9_DelayWithinBounds ==
  b_result # NoDelay =>
    /\ ~b_result.raised
    /\ b_result.value >= MIN_DELAY_MS
    /\ 2 * b_result.value <= 3 * MAX_BACKOFF_MS
    /\ backoff_centre(b_attempt) <= backoff_centre(b_attempt + 1)

====
